---- MODULE Spec2Model ----
(***************************************************************************)
(* The `install` command of tools/installer/bin/naichii-agent.js as a      *)
(* state machine over the target directory's filesystem.                   *)
(*                                                                         *)
(* A text file is a sequence of tokens (pieces of text); a search for a    *)
(* substring is a search for a contiguous run of tokens.                   *)
(***************************************************************************)
EXTENDS Integers, Sequences, FiniteSets, TLC

VARIABLES
    versions,     \* the two package.json files syncVersions reads, and its last run
    publish,      \* what verify() finds in the package, and its counters and result
    cli,          \* --directory, environment and script location; the resolved directories
    source,       \* package source tree: per component "ok", "missing" or "unreadable"
    fs,           \* the target: [target, fw, dest, readme, gitignore]
    start,        \* fs as it was when the current run started
    pc,           \* position of the install command
    components,   \* answer of the checkbox prompt
    step,         \* index of the next `if (components.includes(...))` block
    copied,       \* per component: what copyDirectory logged and returned in this run
    promptError,  \* the checkbox prompt shows the validation message
    outcome,      \* last summary line printed by the command
    exitCode      \* process exit code, NoExit while running

vars == <<versions, publish, cli, source, fs, start, pc, components, step, copied, promptError, outcome, exitCode>>

----------------------------------------------------------------------------
(* Bounds of the model *)

\* at most this many components of the package have a missing or unreadable source
MaxFailing == 1
\* a pre-existing .gitignore holds at most this many tokens
MaxGitignoreLen == 2

----------------------------------------------------------------------------
(* The registry: the checkbox choices and the copy blocks *)

Components == {"javascript", "sql", "js-memory", "sql-memory"}

\* order of the checkbox choices
Choices == <<"javascript", "sql", "js-memory", "sql-memory">>

\* the copy blocks in the order of the checkbox choices
CopyOrderAsChoices == <<"javascript", "sql", "js-memory", "sql-memory">>

\* order of the copy blocks in installFramework
CopyOrder == <<"javascript", "js-memory", "sql", "sql-memory">>

\* README line of a component
ReadmeLine(c) ==
    CASE c = "javascript" -> "- JavaScript Rules & Guidelines (.naichii-agent/rules/javascript/)"
      [] c = "sql"        -> "- SQL Rules & Guidelines (.naichii-agent/rules/sql/)"
      [] c = "js-memory"  -> "- JavaScript Memory Context (.naichii-agent/memory/javascript/)"
      [] c = "sql-memory" -> "- SQL Memory Context (.naichii-agent/memory/sql/)"

\* order of the component lines of the README template
ReadmeOrder == <<"javascript", "sql", "js-memory", "sql-memory">>

\* exit codes: none while the process runs, 0 when the action returns, 1 from
\* process.exit(1) in the action's catch, 130 when the process is killed by Ctrl-C
NoExit == -1
ExitSuccess == 0
ExitFailure == 1
ExitInterrupted == 130

----------------------------------------------------------------------------
(* Paths: a path is the sequence of its segments, "/" first when it is absolute *)

\* path.isAbsolute
IsAbsolute(p) == Len(p) > 0 /\ p[1] = "/"

\* normalisation of an absolute path: "." dropped, ".." removes the segment before it
RECURSIVE NormalizeFrom(_, _)
NormalizeFrom(done, rest) ==
    IF rest = <<>> THEN done
    ELSE LET h == Head(rest)
         IN  CASE h = "."  -> NormalizeFrom(done, Tail(rest))
               [] h = ".." -> NormalizeFrom(IF Len(done) > 1
                                            THEN SubSeq(done, 1, Len(done) - 1)
                                            ELSE done, Tail(rest))
               [] OTHER    -> NormalizeFrom(Append(done, h), Tail(rest))

Normalize(p) == NormalizeFrom(<<"/">>, Tail(p))

\* path.resolve(a, b) in a process whose working directory is cwd
PathResolve(cwd, a, b) ==
    Normalize(IF IsAbsolute(b) THEN b
              ELSE IF IsAbsolute(a) THEN a \o b
              ELSE cwd \o a \o b)

\* path.join(dir, '..', '..', '..') of an absolute dir
JoinUp3(dir) == Normalize(dir \o <<"..", "..", "..">>)

\* an environment variable: unset, or set to a text
Unset == [set |-> FALSE, val |-> <<>>]
SetTo(v) == [set |-> TRUE, val |-> v]

\* a JavaScript value used as a condition: undefined and '' are false
Truthy(v) == v.set /\ v.val # <<>>

\* process.env.PWD || process.env.INIT_CWD || process.cwd()
OriginalCwdPwdFirst(c) ==
    IF Truthy(c.PWD) THEN c.PWD.val
    ELSE IF Truthy(c.INIT_CWD) THEN c.INIT_CWD.val
    ELSE c.cwd

\* process.env.INIT_CWD || process.env.PWD || process.cwd()
OriginalCwd(c) ==
    IF Truthy(c.INIT_CWD) THEN c.INIT_CWD.val
    ELSE IF Truthy(c.PWD) THEN c.PWD.val
    ELSE c.cwd

\* installDir resolved against the directory of the script
ResolveInstallDirFromScript(c) ==
    IF IsAbsolute(c.directory) THEN c.directory
    ELSE PathResolve(c.cwd, c.dirname, c.directory)

\* installDir of installFramework
ResolveInstallDir(c) ==
    IF IsAbsolute(c.directory) THEN c.directory
    ELSE PathResolve(c.cwd, OriginalCwd(c), c.directory)

\* sourceDir of installFramework
ResolveSourceDir(c) == JoinUp3(c.dirname)

Unresolved == <<>>

ProjectDir == <<"/", "home", "user", "project">>
TmpDir == <<"/", "tmp">>
PackageDir == <<"/", "opt", "pkg">>
ScriptDirs ==
    {<<"/", "opt", "pkg", "tools", "installer", "bin">>,
     <<"/", "home", "user", "project", "node_modules", "naichii-agent", "tools", "installer", "bin">>}

\* values of --directory
Directories ==
    {<<".">>, <<"..", "sibling">>, <<"sub", ".", "dir">>,
     <<"/", "srv", "app">>, <<"/", "srv", "..", "app">>}

CliInputs ==
    [directory : Directories,
     INIT_CWD : {Unset, SetTo(<<>>), SetTo(ProjectDir)},
     PWD : {Unset, SetTo(<<>>), SetTo(TmpDir)},
     cwd : {PackageDir, ProjectDir},
     dirname : ScriptDirs,
     installDir : {Unresolved},
     sourceDir : {Unresolved}]

\* npx naichii-agent install, run from the project directory
DefaultCli ==
    [directory |-> <<".">>, INIT_CWD |-> SetTo(ProjectDir), PWD |-> SetTo(ProjectDir),
     cwd |-> ProjectDir,
     dirname |-> <<"/", "home", "user", "project", "node_modules", "naichii-agent",
                   "tools", "installer", "bin">>,
     installDir |-> Unresolved, sourceDir |-> Unresolved]

----------------------------------------------------------------------------
(* Files and directories *)

Files == {"a.md", "b.md", "old.md"}

\* content of a file: "none" is no file
NoFile == "none"
PkgContent == "pkg"
OldContent == "old"
UserContent == "user"

\* the tree the package ships for every component: a.md and b.md
SourceTree == [f \in Files |-> IF f \in {"a.md", "b.md"} THEN PkgContent ELSE NoFile]

\* files a copy of an unreadable source tree writes before the I/O error
CopiedBeforeError == {"a.md"}

NoDir == [exists |-> FALSE, files |-> [f \in Files |-> NoFile]]
\* destination left by an older version of the package
OldDir == [exists |-> TRUE,
           files |-> [f \in Files |-> IF f \in {"a.md", "old.md"} THEN OldContent ELSE NoFile]]

Absent == [kind |-> "absent", text |-> <<>>]
IsDir == [kind |-> "dir", text |-> <<>>]
File(t) == [kind |-> "file", text |-> t]

----------------------------------------------------------------------------
(* Text *)

\* comparison of the whole text instead of a search
IncludesWhole(text, pat) == text = pat

\* String.prototype.includes: pat occurs in text as a contiguous run
Includes(text, pat) ==
    \E i \in 0..(Len(text) - Len(pat)) :
        \A j \in 1..Len(pat) : text[i + j] = pat[j]

Marker == <<".naichii", "-agent">>

GitignoreBlock ==
    <<"\n", "#", " Naichii Agent Framework",
      "\n", "#", " Uncomment if you do not want to commit the framework",
      "\n", "#", " ", ".naichii", "-agent", "/", "\n">>

\* the README template filled in with the prompt's answer
InstructionsContent(sel) ==
    <<"# AI Agent Framework", "\n", "## Installed Components", "\n">>
    \o [i \in 1..4 |-> IF ReadmeOrder[i] \in sel THEN ReadmeLine(ReadmeOrder[i]) ELSE ""]
    \o <<"\n", "## Structure", "## Usage", "## Updating">>

----------------------------------------------------------------------------
(* Steps of installFramework on a filesystem value; threw = an exception left the step *)

\* ensureDir of the framework directory along with the installation directory
EnsureInstallDirAndFramework(f) == [f EXCEPT !.target = "dir", !.fw = "dir"]

\* fs.ensureDir(installDir)
EnsureInstallDir(f) == [f EXCEPT !.target = "dir"]

\* the directory is created whatever the answer
AfterConfirmEager(f, createDir) == EnsureInstallDir(f)

\* `if (!createDir) return; await fs.ensureDir(installDir)`
AfterConfirm(f, createDir) == IF createDir THEN EnsureInstallDir(f) ELSE f

\* validate accepts every answer
ValidateAnything(selected) == TRUE

\* validate with its test inverted
ValidateInverted(selected) == Cardinality(selected) = 0

\* the checkbox prompt's validate
Validate(selected) == Cardinality(selected) # 0

\* the try block with copy's overwrite off: files already at the destination are kept
CopyAttemptNoOverwrite(f, c) ==
    IF f.fw = "file" \/ f.target # "dir"
    THEN [fs |-> f, error |-> TRUE]
    ELSE LET made == [f EXCEPT !.fw = "dir", !.dest[c].exists = TRUE]
         IN  CASE source[c] = "missing" -> [fs |-> made, error |-> TRUE]
               [] source[c] = "unreadable" ->
                    [fs |-> [made EXCEPT !.dest[c].files =
                                [x \in Files |-> IF x \in CopiedBeforeError
                                                    /\ made.dest[c].files[x] = NoFile
                                                 THEN SourceTree[x]
                                                 ELSE made.dest[c].files[x]]],
                     error |-> TRUE]
               [] OTHER ->
                    [fs |-> [made EXCEPT !.dest[c].files =
                                [x \in Files |-> IF SourceTree[x] # NoFile
                                                    /\ made.dest[c].files[x] = NoFile
                                                 THEN SourceTree[x]
                                                 ELSE made.dest[c].files[x]]],
                     error |-> FALSE]

\* the try block testing the source before it creates the destination
CopyAttemptSourceFirst(f, c) ==
    IF f.fw = "file" \/ f.target # "dir" \/ source[c] = "missing"
    THEN [fs |-> f, error |-> TRUE]
    ELSE LET made == [f EXCEPT !.fw = "dir", !.dest[c].exists = TRUE]
         IN  IF source[c] = "unreadable"
             THEN [fs |-> [made EXCEPT !.dest[c].files =
                             [x \in Files |-> IF x \in CopiedBeforeError
                                              THEN SourceTree[x]
                                              ELSE made.dest[c].files[x]]],
                   error |-> TRUE]
             ELSE [fs |-> [made EXCEPT !.dest[c].files =
                             [x \in Files |-> IF SourceTree[x] # NoFile
                                              THEN SourceTree[x]
                                              ELSE made.dest[c].files[x]]],
                   error |-> FALSE]

\* the try block emptying the destination before the copy
CopyAttemptEmptied(f, c) ==
    IF f.fw = "file" \/ f.target # "dir"
    THEN [fs |-> f, error |-> TRUE]
    ELSE LET made == [f EXCEPT !.fw = "dir", !.dest[c].exists = TRUE]
         IN  CASE source[c] = "missing" ->
                    [fs |-> [made EXCEPT !.dest[c].files = [x \in Files |-> NoFile]],
                     error |-> TRUE]
               [] source[c] = "unreadable" ->
                    [fs |-> [made EXCEPT !.dest[c].files =
                                [x \in Files |-> IF x \in CopiedBeforeError
                                                 THEN SourceTree[x] ELSE NoFile]],
                     error |-> TRUE]
               [] OTHER ->
                    [fs |-> [made EXCEPT !.dest[c].files = SourceTree], error |-> FALSE]

\* the try block of copyDirectory: ensureDir(destination), then copy with overwrite
CopyAttempt(f, c) ==
    IF f.fw = "file" \/ f.target # "dir"
    THEN \* ensureDir(destination) throws
         [fs |-> f, error |-> TRUE]
    ELSE LET made == [f EXCEPT !.fw = "dir", !.dest[c].exists = TRUE]
         IN  CASE source[c] = "missing" ->
                    [fs |-> made, error |-> TRUE]
               [] source[c] = "unreadable" ->
                    [fs |-> [made EXCEPT !.dest[c].files =
                                [x \in Files |-> IF x \in CopiedBeforeError
                                                 THEN SourceTree[x]
                                                 ELSE made.dest[c].files[x]]],
                     error |-> TRUE]
               [] OTHER ->
                    [fs |-> [made EXCEPT !.dest[c].files =
                                [x \in Files |-> IF SourceTree[x] # NoFile
                                                 THEN SourceTree[x]
                                                 ELSE made.dest[c].files[x]]],
                     error |-> FALSE]

\* copyDirectory without its catch: the error leaves the function
CopyDirectoryUncaught(f, c) ==
    LET r == CopyAttempt(f, c)
    IN  [fs |-> r.fs, ok |-> ~r.error, threw |-> r.error]

\* copyDirectory(source, destination, label): the new filesystem, the return value,
\* and whether an exception leaves it
CopyDirectory(f, c) ==
    LET r == CopyAttempt(f, c)
    IN  [fs |-> r.fs, ok |-> ~r.error, threw |-> FALSE]

\* a copy block without its components.includes test
CopyBlockUnconditional(f, sel, c) == CopyDirectory(f, c)

\* one `if (components.includes(c)) await copyDirectory(...)` block
CopyBlock(f, sel, c) ==
    IF c \in sel THEN CopyDirectory(f, c) ELSE [fs |-> f, ok |-> FALSE, threw |-> FALSE]

\* the README write with its error caught and dropped
WriteReadmeSwallow(f, sel) ==
    IF f.fw # "dir" \/ f.readme.kind = "dir"
    THEN [fs |-> f, threw |-> FALSE]
    ELSE [fs |-> [f EXCEPT !.readme = File(InstructionsContent(sel))], threw |-> FALSE]

\* the README rebuilt from the selection and the components the old README lists
WriteReadmeMerge(f, sel) ==
    IF f.fw # "dir" \/ f.readme.kind = "dir"
    THEN [fs |-> f, threw |-> TRUE]
    ELSE [fs |-> [f EXCEPT !.readme = File(InstructionsContent(
                    sel \cup {c \in Components :
                                \E i \in DOMAIN f.readme.text : f.readme.text[i] = ReadmeLine(c)}))],
          threw |-> FALSE]

\* the README appended to instead of overwritten
WriteReadmeAppend(f, sel) ==
    IF f.fw # "dir" \/ f.readme.kind = "dir"
    THEN [fs |-> f, threw |-> TRUE]
    ELSE [fs |-> [f EXCEPT !.readme = File(f.readme.text \o InstructionsContent(sel))],
          threw |-> FALSE]

\* fs.writeFile(.naichii-agent/README.md, instructionsContent)
WriteReadme(f, sel) ==
    IF f.fw # "dir" \/ f.readme.kind = "dir"
    THEN [fs |-> f, threw |-> TRUE]
    ELSE [fs |-> [f EXCEPT !.readme = File(InstructionsContent(sel))], threw |-> FALSE]

\* the update without the marker test
UpdateGitignoreAlways(f) ==
    CASE f.gitignore.kind = "absent" -> [fs |-> f, threw |-> FALSE]
      [] f.gitignore.kind = "dir"    -> [fs |-> f, threw |-> TRUE]
      [] OTHER -> [fs |-> [f EXCEPT !.gitignore.text = @ \o GitignoreBlock], threw |-> FALSE]

\* the update writing the block instead of the extended content
UpdateGitignoreRewrite(f) ==
    CASE f.gitignore.kind = "absent" -> [fs |-> f, threw |-> FALSE]
      [] f.gitignore.kind = "dir"    -> [fs |-> f, threw |-> TRUE]
      [] OTHER ->
            IF ~Includes(f.gitignore.text, Marker)
            THEN [fs |-> [f EXCEPT !.gitignore.text = GitignoreBlock], threw |-> FALSE]
            ELSE [fs |-> f, threw |-> FALSE]

\* the update creating the file when there is none
UpdateGitignoreCreate(f) ==
    CASE f.gitignore.kind = "absent" ->
            [fs |-> [f EXCEPT !.gitignore = File(GitignoreBlock)], threw |-> FALSE]
      [] f.gitignore.kind = "dir"    -> [fs |-> f, threw |-> TRUE]
      [] OTHER ->
            IF ~Includes(f.gitignore.text, Marker)
            THEN [fs |-> [f EXCEPT !.gitignore.text = @ \o GitignoreBlock], threw |-> FALSE]
            ELSE [fs |-> f, threw |-> FALSE]

\* the .gitignore update
UpdateGitignore(f) ==
    CASE f.gitignore.kind = "absent" -> [fs |-> f, threw |-> FALSE]
      [] f.gitignore.kind = "dir"    -> [fs |-> f, threw |-> TRUE]
      [] OTHER ->
            IF ~Includes(f.gitignore.text, Marker)
            THEN [fs |-> [f EXCEPT !.gitignore.text = @ \o GitignoreBlock], threw |-> FALSE]
            ELSE [fs |-> f, threw |-> FALSE]

\* the copy blocks from block i on, in order
RECURSIVE CopyBlocksFrom(_, _, _)
CopyBlocksFrom(f, sel, i) ==
    IF i > Len(CopyOrder) THEN f
    ELSE CopyBlocksFrom(CopyBlock(f, sel, CopyOrder[i]).fs, sel, i + 1)

\* installFramework run to its end on f, the creation prompt answered yes and the
\* checkbox prompt answered sel: the final filesystem and the summary line
FullRun(f, sel) ==
    LET f1 == IF f.target = "dir" THEN f ELSE AfterConfirm(f, TRUE)
        f2 == CopyBlocksFrom(f1, sel, 1)
        r  == WriteReadme(f2, sel)
        g  == UpdateGitignore(r.fs)
    IN  IF r.threw THEN [fs |-> r.fs, outcome |-> "failed"]
        ELSE [fs |-> g.fs, outcome |-> IF g.threw THEN "failed" ELSE "complete"]

----------------------------------------------------------------------------
(* The package.json files of syncVersions *)

Versions == {"1.0.0", "1.0.1", "1.1.0", "2.0.0"}

\* the version of a package.json that has no version field
NoVersion == "undefined"

\* a package.json: whether readJSON can read it, and its version field
PkgFiles ==
    {[readable |-> FALSE, version |-> NoVersion]}
    \cup [readable : {TRUE}, version : Versions \cup {NoVersion}]

\* the body of the try block of syncVersions with the comparison left out
SyncVersionsAlwaysWrite(v) ==
    IF ~v.main.readable \/ ~v.installer.readable \/ ~v.installerWritable
    THEN [main |-> v.main, installer |-> v.installer, wrote |-> FALSE, threw |-> TRUE]
    ELSE [main |-> v.main,
          installer |-> [v.installer EXCEPT !.version = v.main.version],
          wrote |-> TRUE, threw |-> FALSE]

\* the body of the try block of syncVersions on the two files: the files afterwards,
\* whether writeJSON wrote the installer's, and whether an exception reached the catch
SyncVersionsBody(v) ==
    IF ~v.main.readable \/ ~v.installer.readable
    THEN [main |-> v.main, installer |-> v.installer, wrote |-> FALSE, threw |-> TRUE]
    ELSE IF v.installer.version # v.main.version
         THEN IF v.installerWritable
              THEN [main |-> v.main,
                    installer |-> [v.installer EXCEPT !.version = v.main.version],
                    wrote |-> TRUE, threw |-> FALSE]
              ELSE [main |-> v.main, installer |-> v.installer,
                    wrote |-> FALSE, threw |-> TRUE]
         ELSE [main |-> v.main, installer |-> v.installer, wrote |-> FALSE, threw |-> FALSE]

\* the files before any run of syncVersions
VersionsOf(m, i, w) ==
    [main |-> m, installer |-> i, installerWritable |-> w,
     beforeMain |-> m, beforeInstaller |-> i, wrote |-> FALSE]

DefaultVersions ==
    VersionsOf([readable |-> TRUE, version |-> "1.0.0"],
               [readable |-> TRUE, version |-> "1.0.0"], TRUE)

----------------------------------------------------------------------------
(* What verify() looks at *)

RequiredFiles ==
    {"package.json", "README.md", "LICENSE", "CHANGELOG.md",
     "tools/installer/bin/naichii-agent.js"}

ContentDirs ==
    {"context/rules/javascript", "context/rules/sql",
     "context/memory/javascript", "context/memory/sql"}

NotReturned == -1

\* at most this many things are wrong in the package
MaxDefects == 2

BoolCount(b) == IF b THEN 0 ELSE 1

\* number of things wrong in a package
Defects(p) ==
    Cardinality({x \in RequiredFiles \cup ContentDirs : ~p.exists[x]})
    + BoolCount(p.pkgReadable) + BoolCount(p.name) + BoolCount(p.version)
    + BoolCount(p.bin) + BoolCount(p.repository = "set") + BoolCount(p.files)
    + BoolCount(p.helpRuns) + BoolCount(p.listRuns)

\* what can be true of a package together: a package.json that is not there cannot be
\* read and its fields are not looked at; a script that is not there does not run,
\* and list is not tried when --help failed
Consistent(p) ==
    /\ ~p.exists["package.json"] => ~p.pkgReadable
    /\ ~p.pkgReadable => (p.name /\ p.version /\ p.bin /\ p.repository = "set" /\ p.files)
    /\ ~p.exists["tools/installer/bin/naichii-agent.js"] => ~p.helpRuns
    /\ ~p.helpRuns => ~p.listRuns

Packages ==
    {p \in [exists : [RequiredFiles \cup ContentDirs -> BOOLEAN],
            pkgReadable : BOOLEAN, name : BOOLEAN, version : BOOLEAN, bin : BOOLEAN,
            repository : {"unset", "placeholder", "set"}, files : BOOLEAN,
            helpRuns : BOOLEAN, listRuns : BOOLEAN,
            passed : {0}, failed : {0}, returned : {NotReturned}] :
        Consistent(p) /\ Defects(p) <= MaxDefects}

GoodPackage ==
    [exists |-> [x \in RequiredFiles \cup ContentDirs |-> TRUE],
     pkgReadable |-> TRUE, name |-> TRUE, version |-> TRUE, bin |-> TRUE,
     repository |-> "set", files |-> TRUE, helpRuns |-> TRUE, listRuns |-> TRUE,
     passed |-> 0, failed |-> 0, returned |-> NotReturned]

\* failed after the checkFile calls on a set of paths
MissingOf(p, paths) == Cardinality({x \in paths : ~p.exists[x]})

\* failed after the package.json block
PkgFailed(p, warningsFail) ==
    IF ~p.pkgReadable THEN 1
    ELSE BoolCount(p.name) + BoolCount(p.version) + BoolCount(p.bin)
         + (IF warningsFail THEN BoolCount(p.repository = "set") + BoolCount(p.files) ELSE 0)

\* failed after the installer test block
InstallerFailed(p) == IF p.helpRuns /\ p.listRuns THEN 0 ELSE 2

\* passed, over the 5 + 5 + 4 + 1 + 2 checks
PassedOf(p) ==
    (Cardinality(RequiredFiles) - MissingOf(p, RequiredFiles))
    + (IF p.pkgReadable THEN 5 - PkgFailed(p, TRUE) ELSE 0)
    + (Cardinality(ContentDirs) - MissingOf(p, ContentDirs))
    + 1
    + (IF p.helpRuns THEN (IF p.listRuns THEN 2 ELSE 1) ELSE 0)

\* verify() with the checks that print a warning sign not counted as failed
VerifyWarningsPass(p) ==
    LET f == MissingOf(p, RequiredFiles) + PkgFailed(p, FALSE)
             + MissingOf(p, ContentDirs) + InstallerFailed(p)
    IN  [p EXCEPT !.passed = PassedOf(p), !.failed = f,
                  !.returned = IF f = 0 THEN 0 ELSE 1]

\* verify(): the counters at its end and the value it returns
Verify(p) ==
    LET f == MissingOf(p, RequiredFiles) + PkgFailed(p, TRUE)
             + MissingOf(p, ContentDirs) + InstallerFailed(p)
    IN  [p EXCEPT !.passed = PassedOf(p), !.failed = f,
                  !.returned = IF f = 0 THEN 0 ELSE 1]

\* neither syncVersions nor verify has run
ToolsNotRun ==
    /\ versions = DefaultVersions
    /\ publish = GoodPackage

\* listAvailable creating the directory it is run in
ListAvailableEnsureDir(f) == [fs |-> EnsureInstallDir(f), threw |-> FALSE]

\* listAvailable(): console.log calls only
ListAvailable(f) == [fs |-> f, threw |-> FALSE]

----------------------------------------------------------------------------
(* Initial states *)

AllOk == [c \in Components |-> "ok"]

Sources ==
    {s \in [Components -> {"ok", "missing", "unreadable"}] :
        Cardinality({c \in Components : s[c] # "ok"}) <= MaxFailing}

GitignoreTokens == {".naichii", "-agent"}

SeqsUpTo(S, n) == UNION {[1..k -> S] : k \in 0..n}

EmptyTarget ==
    [target |-> "dir", fw |-> "absent", dest |-> [c \in Components |-> NoDir],
     readme |-> Absent, gitignore |-> Absent]

NoTarget == [EmptyTarget EXCEPT !.target = "absent"]

\* an installation of an older package version, every component, .gitignore patched
OldInstall ==
    [target |-> "dir", fw |-> "dir", dest |-> [c \in Components |-> OldDir],
     readme |-> File(InstructionsContent(Components)),
     gitignore |-> File(<<"node_modules">> \o GitignoreBlock)]

InitTargets ==
    {NoTarget, EmptyTarget, OldInstall,
     [EmptyTarget EXCEPT !.fw = "file"],
     [EmptyTarget EXCEPT !.fw = "dir", !.readme = IsDir],
     [EmptyTarget EXCEPT !.gitignore = IsDir],
     [EmptyTarget EXCEPT !.gitignore = File(<<"node_modules", "\n">>)],
     [EmptyTarget EXCEPT !.fw = "dir", !.readme = IsDir,
                         !.gitignore = File(<<"node_modules", "\n">>)]}

\* no install command has run yet
InitProcess ==
    /\ ToolsNotRun
    /\ start = fs
    /\ pc = "idle"
    /\ components = {}
    /\ step = 1
    /\ copied = [c \in Components |-> "none"]
    /\ promptError = FALSE
    /\ outcome = "none"
    /\ exitCode = NoExit

\* a package whose SQL rules are missing
SqlMissing == [AllOk EXCEPT !["sql"] = "missing"]

Init ==
    /\ \/ /\ source \in Sources
          /\ fs = EmptyTarget
       \/ /\ source = SqlMissing
          /\ fs = [EmptyTarget EXCEPT !.gitignore = IsDir]
       \/ /\ source = AllOk
          /\ fs \in InitTargets \cup
                {[EmptyTarget EXCEPT !.gitignore = File(t)] :
                    t \in SeqsUpTo(GitignoreTokens, MaxGitignoreLen)}
    /\ cli = DefaultCli
    /\ InitProcess

----------------------------------------------------------------------------
(* Actions *)

\* the command starts: the directories are resolved, then pathExists(installDir)
StartInstall ==
    /\ pc \in {"idle", "done"}
    /\ pc' = IF fs.target = "dir" THEN "select" ELSE "confirm"
    /\ start' = fs
    /\ components' = {}
    /\ step' = 1
    /\ copied' = [c \in Components |-> "none"]
    /\ promptError' = FALSE
    /\ outcome' = "none"
    /\ exitCode' = NoExit
    /\ cli' = [cli EXCEPT !.installDir = ResolveInstallDir(cli),
                          !.sourceDir = ResolveSourceDir(cli)]
    /\ UNCHANGED <<versions, publish, source, fs>>

\* the answer to "Directory does not exist. Create it?"
ConfirmCreate ==
    /\ pc = "confirm"
    /\ \E createDir \in BOOLEAN :
         /\ fs' = AfterConfirm(fs, createDir)
         /\ IF ~createDir
            THEN /\ outcome' = "cancelled"
                 /\ pc' = "done"
                 /\ exitCode' = ExitSuccess
            ELSE /\ pc' = "select"
                 /\ UNCHANGED <<outcome, exitCode>>
    /\ UNCHANGED <<versions, publish, cli, source, start, components, step, copied, promptError>>

\* the checkbox prompt is submitted
SubmitSelection ==
    /\ pc = "select"
    /\ \E selected \in SUBSET Components :
         IF Validate(selected)
         THEN /\ components' = selected
              /\ promptError' = FALSE
              /\ pc' = "copy"
         ELSE /\ promptError' = TRUE
              /\ UNCHANGED <<components, pc>>
    /\ UNCHANGED <<versions, publish, cli, source, fs, start, step, copied, outcome, exitCode>>

\* the next copy block; an exception would reach the command's catch
InstallComponent ==
    /\ pc = "copy"
    /\ LET c == CopyOrder[step]
           r == CopyBlock(fs, components, c)
       IN  /\ fs' = r.fs
           /\ copied' = IF c \in components
                        THEN [copied EXCEPT ![c] = IF r.ok THEN "installed" ELSE "failed"]
                        ELSE copied
           /\ IF r.threw
              THEN pc' = "done" /\ outcome' = "failed" /\ exitCode' = ExitFailure /\ step' = step
              ELSE /\ UNCHANGED <<outcome, exitCode>>
                   /\ IF step = Len(CopyOrder)
                      THEN pc' = "readme" /\ step' = step
                      ELSE pc' = pc /\ step' = step + 1
    /\ UNCHANGED <<versions, publish, cli, source, start, components, promptError>>

\* the README write; an exception reaches the command's catch
CreateReadme ==
    /\ pc = "readme"
    /\ LET r == WriteReadme(fs, components)
       IN  /\ fs' = r.fs
           /\ IF r.threw
              THEN pc' = "done" /\ outcome' = "failed" /\ exitCode' = ExitFailure
              ELSE pc' = "gitignore" /\ UNCHANGED <<outcome, exitCode>>
    /\ UNCHANGED <<versions, publish, cli, source, start, components, step, copied, promptError>>

\* the .gitignore update; an exception reaches the command's catch
PatchGitignore ==
    /\ pc = "gitignore"
    /\ LET r == UpdateGitignore(fs)
       IN  /\ fs' = r.fs
           /\ IF r.threw
              THEN pc' = "done" /\ outcome' = "failed" /\ exitCode' = ExitFailure
              ELSE pc' = "report" /\ UNCHANGED <<outcome, exitCode>>
    /\ UNCHANGED <<versions, publish, cli, source, start, components, step, copied, promptError>>

\* "Installation complete!" is printed and the command returns
ReportComplete ==
    /\ pc = "report"
    /\ pc' = "done"
    /\ outcome' = "complete"
    /\ exitCode' = ExitSuccess
    /\ UNCHANGED <<versions, publish, cli, source, fs, start, components, step, copied, promptError>>

\* the user interrupts the process (Ctrl-C)
Interrupt ==
    /\ pc \in {"confirm", "select", "copy", "readme", "gitignore", "report"}
    /\ pc' = "done"
    /\ outcome' = "interrupted"
    /\ exitCode' = ExitInterrupted
    /\ UNCHANGED <<versions, publish, cli, source, fs, start, components, step, copied, promptError>>

Next ==
    \/ StartInstall
    \/ ConfirmCreate
    \/ SubmitSelection
    \/ InstallComponent
    \/ CreateReadme
    \/ PatchGitignore
    \/ ReportComplete
    \/ Interrupt

Spec == Init /\ [][Next]_vars

----------------------------------------------------------------------------
(* The resolution of the directories alone, over the command line and environment *)

InitResolve ==
    /\ cli \in CliInputs
    /\ source = AllOk
    /\ fs = EmptyTarget
    /\ InitProcess

SpecResolve == InitResolve /\ [][StartInstall]_vars

----------------------------------------------------------------------------
(* Install runs with the user editing installed files between them *)

\* at most this many files of the target hold the user's content at a time
MaxEdited == 1

EditedFiles(f) ==
    {<<c, x>> \in Components \X Files : f.dest[c].files[x] = UserContent}

\* between runs the user edits a file that is under .naichii-agent
UserEdit ==
    /\ pc \in {"idle", "done"}
    /\ Cardinality(EditedFiles(fs)) < MaxEdited
    /\ \E c \in Components, x \in Files :
         /\ fs.dest[c].exists
         /\ fs.dest[c].files[x] \notin {NoFile, UserContent}
         /\ fs' = [fs EXCEPT !.dest[c].files[x] = UserContent]
    /\ UNCHANGED <<versions, publish, cli, source, start, pc, components, step, copied, promptError,
                   outcome, exitCode>>

InitEdit ==
    /\ cli = DefaultCli
    /\ source = AllOk
    /\ fs \in {EmptyTarget, OldInstall}
    /\ InitProcess

\* the target exists, so no confirmation is asked; no run is interrupted
NextEdit ==
    \/ StartInstall
    \/ SubmitSelection
    \/ InstallComponent
    \/ CreateReadme
    \/ PatchGitignore
    \/ ReportComplete
    \/ UserEdit

SpecEdit == InitEdit /\ [][NextEdit]_vars

----------------------------------------------------------------------------
(* The install step of installFramework (lines 114-211) over the values of components *)

\* ids with no choice and no copy block: the package ships context/rules/php
UnknownIds == {"php"}

InitInstallStep ==
    /\ cli = [DefaultCli EXCEPT !.installDir = ResolveInstallDir(DefaultCli),
                                !.sourceDir = ResolveSourceDir(DefaultCli)]
    /\ ToolsNotRun
    /\ source = AllOk
    /\ fs \in {EmptyTarget, OldInstall,
               [EmptyTarget EXCEPT !.gitignore = File(<<"node_modules", "\n">>)]}
    /\ start = fs
    /\ pc = "copy"
    /\ components \in (SUBSET (Components \cup UnknownIds)) \ {{}}
    /\ step = 1
    /\ copied = [c \in Components |-> "none"]
    /\ promptError = FALSE
    /\ outcome = "none"
    /\ exitCode = NoExit

NextInstallStep ==
    \/ InstallComponent
    \/ CreateReadme
    \/ PatchGitignore
    \/ ReportComplete

SpecInstallStep == InitInstallStep /\ [][NextInstallStep]_vars

----------------------------------------------------------------------------
(* The list command, on any target *)

\* the action of the list command
ListCommand ==
    /\ pc \in {"idle", "done"}
    /\ LET r == ListAvailable(fs)
       IN  /\ fs' = r.fs
           /\ outcome' = IF r.threw THEN "failed" ELSE "listed"
           /\ exitCode' = IF r.threw THEN ExitFailure ELSE ExitSuccess
    /\ start' = fs
    /\ pc' = "done"
    /\ UNCHANGED <<versions, publish, cli, source, components, step, copied, promptError>>

InitList ==
    /\ cli = DefaultCli
    /\ source \in Sources
    /\ fs \in InitTargets \cup
            {[EmptyTarget EXCEPT !.gitignore = File(t)] :
                t \in SeqsUpTo(GitignoreTokens, MaxGitignoreLen)}
    /\ InitProcess

SpecList == InitList /\ [][ListCommand]_vars

----------------------------------------------------------------------------
(* syncVersions, with the developer changing versions between runs *)

\* node tools/sync-version.js
SyncVersions ==
    /\ pc \in {"idle", "done"}
    /\ LET r == SyncVersionsBody(versions)
       IN  /\ versions' = [versions EXCEPT !.main = r.main, !.installer = r.installer,
                                           !.beforeMain = versions.main,
                                           !.beforeInstaller = versions.installer,
                                           !.wrote = r.wrote]
           /\ outcome' = IF r.threw THEN "failed" ELSE "synced"
           /\ exitCode' = IF r.threw THEN ExitFailure ELSE ExitSuccess
    /\ pc' = "done"
    /\ UNCHANGED <<publish, cli, source, fs, start, components, step, copied, promptError>>

\* the developer sets the version of the main package.json
BumpVersion ==
    /\ pc = "done"
    /\ versions.main.readable
    /\ \E v \in Versions \ {versions.main.version} :
         versions' = VersionsOf([versions.main EXCEPT !.version = v],
                                versions.installer, versions.installerWritable)
    /\ pc' = "idle"
    /\ outcome' = "none"
    /\ exitCode' = NoExit
    /\ UNCHANGED <<publish, cli, source, fs, start, components, step, copied, promptError>>

\* the main package starts at 1.0.0, without a version, or unreadable
InitSync ==
    /\ versions \in {VersionsOf(m, i, w) :
                        m \in {x \in PkgFiles : x.version \in {"1.0.0", NoVersion}},
                        i \in PkgFiles, w \in BOOLEAN}
    /\ publish = GoodPackage
    /\ cli = DefaultCli
    /\ source = AllOk
    /\ fs = EmptyTarget
    /\ start = fs
    /\ pc = "idle"
    /\ components = {}
    /\ step = 1
    /\ copied = [c \in Components |-> "none"]
    /\ promptError = FALSE
    /\ outcome = "none"
    /\ exitCode = NoExit

NextSync ==
    \/ SyncVersions
    \/ BumpVersion

SpecSync == InitSync /\ [][NextSync]_vars

----------------------------------------------------------------------------
(* verify(), over packages with a few things wrong *)

\* verify().then(code => process.exit(code))
VerifyPackage ==
    /\ pc = "idle"
    /\ publish' = Verify(publish)
    /\ exitCode' = publish'.returned
    /\ outcome' = "verified"
    /\ pc' = "done"
    /\ UNCHANGED <<versions, cli, source, fs, start, components, step, copied, promptError>>

InitVerify ==
    /\ publish \in Packages
    /\ versions = DefaultVersions
    /\ cli = DefaultCli
    /\ source = AllOk
    /\ fs = EmptyTarget
    /\ start = fs
    /\ pc = "idle"
    /\ components = {}
    /\ step = 1
    /\ copied = [c \in Components |-> "none"]
    /\ promptError = FALSE
    /\ outcome = "none"
    /\ exitCode = NoExit

SpecVerify == InitVerify /\ [][VerifyPackage]_vars

----------------------------------------------------------------------------
(* Derived notions *)

\* position of a component in the copy order
CopyPos(c) == CHOOSE i \in 1..Len(CopyOrder) : CopyOrder[i] = c

\* the components whose line is in a README text
Listed(text) == {c \in Components : \E i \in DOMAIN text : text[i] = ReadmeLine(c)}

\* the destination of c holds every file of the source tree with the source's content
HoldsSourceTree(f, c) ==
    /\ f.dest[c].exists
    /\ \A x \in Files : SourceTree[x] # NoFile => f.dest[c].files[x] = SourceTree[x]

\* the copy of c can succeed in the current run
CanSucceed(c) == source[c] = "ok" /\ start.fw # "file"

\* the copy phase of the current run is over, or the run ended on an error
PastCopies ==
    \/ pc \in {"readme", "gitignore", "report"}
    \/ pc = "done" /\ outcome \in {"complete", "failed"}

Completed == pc = "done" /\ outcome = "complete"

----------------------------------------------------------------------------
(* Claims *)

\* C1: a failing copy of one selected component never stops the run: once the run is
\* past its copy blocks or has ended on an error, every selected component whose own
\* copy can succeed is reported installed and fully copied to its destination,
\* whatever the position of the failing component.
C1_FailureIsolated ==
    PastCopies =>
        \A c \in components :
            CanSucceed(c) => copied[c] = "installed" /\ HoldsSourceTree(fs, c)

\* a run completed in which a component failed and a later one was installed
C1_Witness ==
    /\ Completed
    /\ \E c, d \in components :
         /\ copied[c] = "failed"
         /\ copied[d] = "installed"
         /\ CopyPos(c) < CopyPos(d)
         /\ start.dest[d] = NoDir

\* C2 (as claimed): when a run completes, the README lists exactly the components
\* whose copy succeeded in that run.
C2_ReadmeListsSucceeded ==
    Completed =>
        Listed(fs.readme.text) = {c \in Components : copied[c] = "installed"}

\* C3: install is idempotent: when a run has completed, a second complete run with
\* the same selection (the package source is the same throughout) completes too and
\* leaves the target, component subtrees, README and .gitignore, exactly as the
\* first run left it; a run that completes on a target which already holds the
\* result of its selection changes nothing.
C3_Idempotent ==
    Completed =>
        /\ FullRun(fs, components) = [fs |-> fs, outcome |-> "complete"]
        /\ (FullRun(start, components) = [fs |-> start, outcome |-> "complete"] => fs = start)

\* a run completed, changing nothing, on the target left by a completed run with the
\* same selection in which one copy had failed part-way and .gitignore was patched
C3_Witness ==
    /\ Completed
    /\ fs = start
    /\ start.readme = File(InstructionsContent(components))
    /\ \E c \in components : source[c] = "unreadable" /\ copied[c] = "failed"
    /\ \E c \in components : source[c] = "ok" /\ copied[c] = "installed"

InRun == pc \in {"confirm", "select", "copy", "readme", "gitignore", "report"}

\* the selections a later run can repeat: the one made, or any when none was made yet
SameSelections == IF components = {} THEN (SUBSET Components) \ {{}} ELSE {components}

\* C4: wherever a run is interrupted, a complete run from the target it left, with the
\* same selection, ends as an uninterrupted run from the original target ends; and a
\* run that reaches its end ends as the uninterrupted run from its start.
C4_InterruptedRunConverges ==
    /\ (InRun \/ (pc = "done" /\ outcome = "interrupted")) =>
          \A sel \in SameSelections : FullRun(fs, sel) = FullRun(start, sel)
    /\ (pc = "done" /\ outcome \in {"complete", "failed"}) =>
          FullRun(start, components) = [fs |-> fs, outcome |-> outcome]

\* a run was interrupted after the .gitignore patch, having changed the target
C4_Witness ==
    /\ pc = "done" /\ outcome = "interrupted"
    /\ step = Len(CopyOrder)
    /\ fs.readme # start.readme
    /\ fs.gitignore # start.gitignore
    /\ fs.dest # start.dest

\* the lines of a text: the runs of tokens between newlines
RECURSIVE TextLines(_, _)
TextLines(text, line) ==
    IF text = <<>> THEN <<line>>
    ELSE IF Head(text) = "\n" THEN <<line>> \o TextLines(Tail(text), <<>>)
    ELSE TextLines(Tail(text), Append(line, Head(text)))

IsCommentOrEmpty(line) == line # <<>> => Head(line) = "#"

\* the original .gitignore had no marker
Unmarked(g) == g.kind = "file" /\ ~Includes(g.text, Marker)

\* C5: a .gitignore without the marker is, after a completed install, its original
\* content as a prefix followed by an appended block that names the framework
\* directory and whose non-empty lines are all comments.
C5_GitignorePrefixPreserved ==
    (Completed /\ Unmarked(start.gitignore)) =>
        LET old == start.gitignore.text
            new == fs.gitignore.text
            block == SubSeq(new, Len(old) + 1, Len(new))
            lines == TextLines(block, <<>>)
        IN  /\ fs.gitignore.kind = "file"
            /\ Len(new) > Len(old)
            /\ SubSeq(new, 1, Len(old)) = old
            /\ Includes(block, Marker)
            /\ \A i \in DOMAIN lines : IsCommentOrEmpty(lines[i])

\* a run completed on a .gitignore that held the halves of the marker in the wrong order
C5_Witness ==
    /\ Completed
    /\ Unmarked(start.gitignore)
    /\ start.gitignore.text = <<"-agent", ".naichii">>
    /\ fs.gitignore # start.gitignore

\* number of places where the suggestion block occurs in a text
BlockCount(text) ==
    Cardinality({i \in 1..Len(text) :
        /\ i + Len(GitignoreBlock) - 1 <= Len(text)
        /\ SubSeq(text, i, i + Len(GitignoreBlock) - 1) = GitignoreBlock})

\* C6: a .gitignore that contains the marker when a run starts is left identical by
\* the run, and over any sequence of runs the block is in the file at most once.
C6_MarkedGitignoreUntouched ==
    /\ (start.gitignore.kind = "file" /\ Includes(start.gitignore.text, Marker)) =>
          fs.gitignore = start.gitignore
    /\ BlockCount(fs.gitignore.text) <= 1

\* a run completed on a .gitignore to which an earlier run had appended the block
C6_Witness ==
    /\ Completed
    /\ start.gitignore = File(<<".naichii">> \o GitignoreBlock)
    /\ fs.gitignore = start.gitignore

\* C7: the copy blocks, the README write, the .gitignore update and the completion
\* message are reached only with a non-empty selection; while the selection is empty
\* the framework directory is as it was at the start of the run.
C7_NoEmptySelectionProceeds ==
    /\ (pc \in {"copy", "readme", "gitignore", "report"} \/ Completed) => components # {}
    /\ (InRun /\ components = {}) => (fs.fw = start.fw /\ fs.readme = start.readme)

\* an empty selection was submitted and the prompt is still open, no framework directory
C7_Witness ==
    /\ pc = "select"
    /\ promptError
    /\ components = {}
    /\ fs.fw = "absent"

\* C8 (as claimed): when the empty selection is rejected, nothing has been created or
\* written on disk since the run started, the target directory included.
C8_NothingMutatedAtValidation ==
    promptError => fs = start

\* C8 (amended): when the empty selection is rejected, the only change on disk since
\* the run started is the creation of the target directory, if it did not exist.
C8_OnlyTargetDirCreated ==
    promptError => fs = [start EXCEPT !.target = "dir"]

\* the empty selection was rejected in a run that had created the target directory
C8_Witness ==
    /\ promptError
    /\ start.target = "absent"
    /\ fs.target = "dir"

\* C9 (as claimed): submitting the prompt with zero components ends the command with
\* a non-zero exit code.
C9_EmptySelectionExitsNonZero ==
    [][(pc = "select" /\ promptError') =>
          (pc' = "done" /\ exitCode' \notin {NoExit, ExitSuccess})]_vars

\* C9 (amended): submitting the prompt with zero components does not end the
\* command: the validation message is shown, the prompt stays open, nothing is
\* selected or written and no exit code is set.
C9_EmptySelectionReprompts ==
    [][(pc = "select" /\ pc' # "done" /\ components' = {}) =>
          /\ promptError'
          /\ pc' = "select"
          /\ exitCode' = NoExit
          /\ fs' = fs]_vars

\* the prompt shows the validation message and the command has not ended
C9_Witness ==
    /\ pc = "select"
    /\ promptError
    /\ exitCode = NoExit

\* C10: a run whose creation prompt was declined has no side effects: the target
\* directory is still absent, nothing was copied, no README, no .gitignore.
C10_DeclineHasNoSideEffects ==
    (pc = "done" /\ outcome = "cancelled") =>
        /\ fs = start
        /\ fs.target = "absent"
        /\ \A c \in Components : copied[c] = "none" /\ ~fs.dest[c].exists
        /\ fs.readme.kind = "absent"
        /\ fs.gitignore.kind = "absent"

\* the creation prompt was declined
C10_Witness ==
    /\ pc = "done"
    /\ outcome = "cancelled"
    /\ start.target = "absent"

\* C11 (as claimed): a run whose creation prompt was declined ends with a non-zero
\* exit code.
C11_DeclineExitsNonZero ==
    (pc = "done" /\ outcome = "cancelled") => exitCode \notin {NoExit, ExitSuccess}

\* the run went to its end: it was neither cancelled nor interrupted
RanToEnd == pc = "done" /\ outcome \in {"complete", "failed"}

SomeCopyFailed == \E c \in components : copied[c] = "failed"

\* the README of the target is the one the current run writes
ReadmeWritten == fs.readme = File(InstructionsContent(components))

\* the README write of a run from target f cannot fail
ReadmeWritable(f) == f.fw # "file" /\ f.readme.kind # "dir"

\* C12 (as claimed): a run in which some or all selected components failed to copy
\* ends with exit code 0 and a completed installation, provided the README write
\* succeeded.
C12_CopyFailuresExitZero ==
    (RanToEnd /\ SomeCopyFailed /\ ReadmeWritten) =>
        (outcome = "complete" /\ exitCode = ExitSuccess)

\* C13: when the README write fails, the run ends there with the failure reported
\* and exit code 1, also when every selected component was copied; it never goes on
\* to the .gitignore update or the completion message.
C13_ReadmeFailureIsFatal ==
    ((pc \in {"gitignore", "report"} \/ RanToEnd) /\ ~ReadmeWritable(fs)) =>
        (pc = "done" /\ outcome = "failed" /\ exitCode = ExitFailure)

\* the README write failed after every selected component was installed
C13_Witness ==
    /\ pc = "done" /\ outcome = "failed" /\ exitCode = ExitFailure
    /\ fs.readme.kind = "dir"
    /\ components # {}
    /\ \A c \in components : copied[c] = "installed"

\* C14: when a run completes, the README is the template filled in with that run's
\* selection alone, whatever an earlier run had written: nothing accumulates.
C14_ReadmeOfLastRunOnly ==
    Completed =>
        /\ fs.readme = File(InstructionsContent(components))
        /\ Listed(fs.readme.text) = components

\* a run completed on a README that an earlier run had written with a component this
\* run did not select
C14_Witness ==
    /\ Completed
    /\ start.readme.kind = "file"
    /\ Listed(start.readme.text) # Components
    /\ Listed(start.readme.text) \ components # {}
    /\ components \ Listed(start.readme.text) # {}

PromptsShown ==
    (IF pc # "idle" /\ start.target = "absent" THEN {"createDir"} ELSE {})
    \cup (IF pc \in {"select", "copy", "readme", "gitignore", "report"} \/ components # {}
          THEN {"components"} ELSE {})

\* the prompts of a run on a target that holds no installation
FreshRunPrompts == {"createDir", "components"}

\* the current run has changed a file of the installation it found
OverwroteInstalled ==
    \/ \E c \in Components : start.dest[c].exists /\ fs.dest[c] # start.dest[c]
    \/ start.readme.kind = "file" /\ fs.readme # start.readme

\* C17 (as claimed): on a target that holds an installation, the run has shown a
\* prompt offering the update, one a run on a fresh target does not show, before it
\* overwrites an installed file.
C17_UpdateOfferedBeforeOverwrite ==
    (start.fw = "dir" /\ OverwroteInstalled) => PromptsShown \ FreshRunPrompts # {}

\* position of a component in the checkbox choices
ChoicePos(c) == CHOOSE i \in 1..Len(Choices) : Choices[i] = c

BlockPos(c) ==
    CASE c = "javascript" -> 1 [] c = "js-memory" -> 2 [] c = "sql" -> 3 [] c = "sql-memory" -> 4

C16_UserEditsPreserved ==
    Completed =>
        \A c \in Components, x \in Files :
            start.dest[c].files[x] = UserContent => fs.dest[c].files[x] = UserContent

\* C18: the resolved target directory is the --directory value itself when that is
\* absolute, and otherwise the normalised path from the invocation directory along
\* the --directory value; it is the same wherever the script is located.
C18_TargetFromDirectoryAndInvocationDir ==
    cli.installDir # Unresolved =>
        /\ IsAbsolute(cli.directory) => cli.installDir = cli.directory
        /\ ~IsAbsolute(cli.directory) =>
              cli.installDir = Normalize(OriginalCwd(cli) \o cli.directory)
        /\ \A d \in ScriptDirs :
              ResolveInstallDir([cli EXCEPT !.dirname = d]) = cli.installDir

\* --directory ../sibling from /home/user/project, the process running elsewhere
C18_Witness ==
    /\ cli.directory = <<"..", "sibling">>
    /\ cli.INIT_CWD = SetTo(ProjectDir)
    /\ cli.cwd = PackageDir
    /\ cli.installDir = <<"/", "home", "user", "sibling">>
    /\ cli.sourceDir = PackageDir

C21_MissingSourceIsFatal ==
    (RanToEnd /\ \E c \in components : source[c] = "missing") =>
        (outcome = "failed" /\ exitCode = ExitFailure)

\* C21 (amended): a selected component whose source directory is missing is reported
\* as failed once its copy block has run, and this is not fatal: the run goes on, and
\* when it ends as failed it is because the README write or the .gitignore update
\* raised an error.
C21_MissingSourceReportedNotFatal ==
    \A c \in components :
        (source[c] = "missing" /\ copied[c] # "none") =>
            /\ copied[c] = "failed"
            /\ (pc = "done" /\ outcome = "failed") =>
                  (~ReadmeWritable(fs) \/ fs.gitignore.kind = "dir")
            /\ (RanToEnd /\ ReadmeWritable(start) /\ start.gitignore.kind # "dir") =>
                  (outcome = "complete" /\ exitCode = ExitSuccess)

\* a run completed with exit code 0 although the source of a selected component is
\* missing
C21_Witness ==
    /\ Completed /\ exitCode = ExitSuccess
    /\ \E c \in components : source[c] = "missing" /\ copied[c] = "failed"

\* C23: on a target without .gitignore the run never creates one, and its absence is
\* no error: the run completes with exit code 0 unless the README write fails.
C23_AbsentGitignoreStaysAbsent ==
    start.gitignore.kind = "absent" =>
        /\ fs.gitignore.kind = "absent"
        /\ (RanToEnd /\ ReadmeWritable(start)) =>
              (outcome = "complete" /\ exitCode = ExitSuccess)

\* a run completed, README written, on a target that has no .gitignore
C23_Witness ==
    /\ Completed
    /\ start.gitignore.kind = "absent"
    /\ fs.gitignore.kind = "absent"
    /\ fs.readme # start.readme

\* the .gitignore of f is a file without the marker
Patchable(f) == f.gitignore.kind = "file" /\ ~Includes(f.gitignore.text, Marker)

\* C24: every step of a run leaves the package source as it is, changes the
\* destination of a component only if the component is selected, changes the README
\* only in the README write and .gitignore only in the update of a .gitignore file
\* without the marker; the only other changes are the creation of the confirmed
\* target directory and of .naichii-agent as parent of a selected destination.
C24_WritesOnlySelected ==
    [][/\ source' = source
       /\ \A c \in Components : fs'.dest[c] # fs.dest[c] => (pc = "copy" /\ c \in components)
       /\ fs'.readme # fs.readme => pc = "readme"
       /\ fs'.gitignore # fs.gitignore => (pc = "gitignore" /\ Patchable(fs))
       /\ fs'.fw # fs.fw => (pc = "copy" /\ CopyOrder[step] \in components)
       /\ fs'.target # fs.target => pc = "confirm"]_vars

\* javascript alone was installed into an empty target: its files and a README that
\* lists it alone are there, no other destination exists
C24_Witness ==
    /\ Completed
    /\ start = EmptyTarget
    /\ components = {"javascript"}
    /\ HoldsSourceTree(fs, "javascript")
    /\ \A c \in Components \ {"javascript"} : fs.dest[c] = NoDir
    /\ Listed(fs.readme.text) = {"javascript"}

\* C26: the README differs from the one at the start of the run only when the copy
\* of every selected component has been attempted; .gitignore differs only when the
\* README write has succeeded; a completed run has done both; and a run whose README
\* write failed leaves .gitignore as it was.
C26_StepsOrdered ==
    /\ fs.readme # start.readme =>
          (components # {} /\ \A c \in components : copied[c] # "none")
    /\ pc \in {"readme", "gitignore", "report"} =>
          (components # {} /\ \A c \in components : copied[c] # "none")
    /\ fs.gitignore # start.gitignore =>
          (fs.readme = File(InstructionsContent(components)) /\ pc # "readme")
    /\ Completed =>
          /\ fs.readme = File(InstructionsContent(components))
          /\ \A c \in components : copied[c] # "none"
          /\ ~Patchable(fs)
    /\ (RanToEnd /\ ~ReadmeWritable(fs)) =>
          (outcome = "failed" /\ fs.gitignore = start.gitignore)

\* the README write failed after every copy, on a target whose .gitignore is a file
\* without the marker: .gitignore is as it was
C26_Witness ==
    /\ pc = "done" /\ outcome = "failed"
    /\ fs.readme.kind = "dir"
    /\ Patchable(start)
    /\ fs.gitignore = start.gitignore
    /\ components # {}
    /\ \A c \in components : copied[c] = "installed"

\* C27: once the copy block of a selected component whose source directory is
\* missing has run, the component is reported as failed and, unless .naichii-agent
\* is a file, its destination directory exists; and when the README is about to be
\* written, .naichii-agent is a directory whenever it was not a file.
C27_DestinationCreatedBeforeCopy ==
    /\ \A c \in components :
          (source[c] = "missing" /\ copied[c] # "none") =>
              /\ copied[c] = "failed"
              /\ start.fw # "file" => (fs.dest[c].exists /\ fs.fw = "dir")
    /\ (pc = "readme" /\ start.fw # "file") => fs.fw = "dir"

\* only components with a missing source were selected on an empty target: the run
\* completed, the destination is an empty directory and the README was written
C27_Witness ==
    /\ Completed
    /\ start = EmptyTarget
    /\ \A c \in components : source[c] = "missing" /\ fs.dest[c] = [NoDir EXCEPT !.exists = TRUE]
    /\ fs.readme.kind = "file"

\* C28: no step of a run removes anything: a file that is there stays a file, a
\* directory stays a directory, the README and .gitignore stay.
C28_NeverDeletes ==
    [][/\ \A c \in Components :
             /\ fs.dest[c].exists => fs'.dest[c].exists
             /\ \A x \in Files : fs.dest[c].files[x] # NoFile => fs'.dest[c].files[x] # NoFile
       /\ fs.target = "dir" => fs'.target = "dir"
       /\ fs.fw # "absent" => fs'.fw = fs.fw
       /\ fs.readme.kind # "absent" => fs'.readme.kind = fs.readme.kind
       /\ fs.gitignore.kind # "absent" => fs'.gitignore.kind = fs.gitignore.kind]_vars

\* a run completed without a component an earlier run had installed: its subtree is
\* as it was and the new README does not list it
C28_Witness ==
    /\ Completed
    /\ \E c \in Components \ components :
         /\ HoldsSourceTree(start, c)
         /\ fs.dest[c] = start.dest[c]
         /\ c \in Listed(start.readme.text)
         /\ c \notin Listed(fs.readme.text)

\* C22: the list command changes nothing on disk, whatever is there, and ends with
\* exit code 0.
C22_ListWritesNothing ==
    outcome \in {"listed", "failed"} =>
        (outcome = "listed" /\ fs = start /\ exitCode = ExitSuccess)

\* list has run where the target directory does not exist
C22_Witness ==
    /\ pc = "done" /\ outcome = "listed" /\ exitCode = ExitSuccess
    /\ fs = NoTarget

\* the invocation directory by the precedence of the claim, written out
ByPrecedence(c) ==
    CASE c.INIT_CWD.set /\ c.INIT_CWD.val # <<>> -> c.INIT_CWD.val
      [] ~(c.INIT_CWD.set /\ c.INIT_CWD.val # <<>>) /\ c.PWD.set /\ c.PWD.val # <<>> -> c.PWD.val
      [] OTHER -> c.cwd

\* C25: a relative --directory is resolved against INIT_CWD when that is set and not
\* empty, else against PWD when that is set and not empty, else against the working
\* directory of the process.
C25_InvocationDirPrecedence ==
    (cli.installDir # Unresolved /\ ~IsAbsolute(cli.directory)) =>
        cli.installDir = Normalize(ByPrecedence(cli) \o cli.directory)

\* INIT_CWD is set but empty, PWD is /tmp, the process runs elsewhere
C25_Witness ==
    /\ cli.INIT_CWD = SetTo(<<>>)
    /\ cli.PWD = SetTo(TmpDir)
    /\ cli.cwd = PackageDir
    /\ cli.directory = <<"sub", ".", "dir">>
    /\ cli.installDir = <<"/", "tmp", "sub", "dir">>

\* C29: when syncVersions has ended without error, the two versions are equal, the
\* main package.json is as it was, the installer package.json was written exactly
\* when the versions differed, and another run would write nothing.
C29_VersionsSynced ==
    outcome = "synced" =>
        /\ versions.installer.version = versions.main.version
        /\ versions.main = versions.beforeMain
        /\ versions.wrote <=> (versions.beforeInstaller.version # versions.beforeMain.version)
        /\ ~versions.wrote => versions.installer = versions.beforeInstaller
        /\ LET again == SyncVersionsBody(versions)
           IN  /\ ~again.wrote /\ ~again.threw
               /\ again.main = versions.main /\ again.installer = versions.installer

\* the installer was at 1.0.0, the main package at 1.1.0: the installer was written
C29_Witness ==
    /\ pc = "done" /\ outcome = "synced" /\ exitCode = ExitSuccess
    /\ versions.wrote
    /\ versions.beforeInstaller.version = "1.0.0"
    /\ versions.main.version = "1.1.0"
    /\ versions.installer.version = "1.1.0"

\* every check of verify() succeeds on p
AllChecksOk(p) ==
    /\ \A x \in RequiredFiles \cup ContentDirs : p.exists[x]
    /\ p.pkgReadable /\ p.name /\ p.version /\ p.bin
    /\ p.repository = "set" /\ p.files
    /\ p.helpRuns /\ p.listRuns

\* C30: verify() returns 0 exactly when every check succeeded and 1 when any check
\* failed, and the process exits with the value returned.
C30_VerifyZeroIffAllChecks ==
    outcome = "verified" =>
        /\ publish.returned \in {0, 1}
        /\ publish.returned = 0 <=> AllChecksOk(publish)
        /\ publish.failed = 0 <=> AllChecksOk(publish)
        /\ exitCode = publish.returned

\* the placeholder in the repository URL is the only thing wrong: verify returned 1
C30_Witness ==
    /\ outcome = "verified"
    /\ publish.repository = "placeholder"
    /\ Defects(publish) = 1
    /\ publish.failed = 1
    /\ publish.returned = 1
    /\ exitCode = 1

====
